---- MODULE Spec2Model ----
(***************************************************************************)
(* GPU Admin Dashboard (src/main.py): a Streamlit script over one SQLite   *)
(* database.  Every widget event of a browser session re-runs the script   *)
(* top to bottom in that session's thread; all sessions share the          *)
(* connection `conn` (check_same_thread=False) and take no lock.           *)
(*                                                                         *)
(* State: the four tables, the AUTOINCREMENT sequence of reservations, the *)
(* per-session st.session_state flags, and, for a script run that is       *)
(* between `reservations = get_reservations()` (line 277) and              *)
(* `update_approvers(...)` (line 295), the row `r` it read.                *)
(* Calendar days are ordinals; the TEXT columns hold what strftime writes. *)
(***************************************************************************)
EXTENDS Integers, Sequences, FiniteSets, TLC

\* ---------------------------------------------------------------- bounds
MaxResv == 2        \* reservation ids the AUTOINCREMENT sequence hands out

\* ------------------------------------------------------- program constants
REQUIRED_APPROVALS == 3     \* `len(approvers) >= 3`
MaxAhead == 90              \* `max_value=date.today()+timedelta(days=90)`

\* ------------------------------------------------------------ input sets
Sessions == {"s1", "s2"}
GpuTypeInputs == {"A100", "H100"}       \* text typed into "New GPU Type"
TotalInputs == {1, 10}                  \* values typed into the total inputs
ServiceInputs == {"svc1"}               \* text typed into "Add New Service Name"
PasswordInputs == {"abcd", "guess"}     \* text typed into the password box
Days == {0, 1}                          \* days the clock visits and the
                                        \* date inputs offer
CountInputs == {2}                      \* value typed into "Count"

None == <<>>    \* Python None / SQL NULL / '' : the falsy value of a TEXT cell

\* ------------------------------------------------------------ date codec
\* Day ordinal 0 is 2024-01-30, so the window crosses a month boundary.
\* date.strftime("%Y-%m-%d"): the text is modelled by its three fields.
strftime(d) ==
    IF d + 30 <= 31 THEN <<2024, 1, d + 30>> ELSE <<2024, 2, d + 30 - 31>>

\* pd.to_datetime(text): back to the day ordinal.
to_datetime(txt) ==
    IF txt[2] = 1 THEN txt[3] - 30 ELSE txt[3] + 31 - 30

\* date_range leaving out the end day
date_range_excl(start, end) ==
    [i \in 1 .. (end - start) |-> start + (i - 1)]

\* date_range giving the start day alone when end precedes start
date_range_clamped(start, end) ==
    IF end < start THEN <<start>>
    ELSE [i \in 1 .. (end - start + 1) |-> start + (i - 1)]

\* pd.date_range(start, end): every day from start to end inclusive, empty
\* when end precedes start.
date_range(start, end) ==
    [i \in 1 .. (end - start + 1) |-> start + (i - 1)]

\* --------------------------------------------------------- approvers codec
\* f"member{n}"
member(n) == <<"member1", "member2", "member3", "member4">>[n]

\* ",".join(approvers): the TEXT cell as a sequence of tokens.
RECURSIVE join(_)
join(approvers) ==
    IF approvers = <<>> THEN <<>>
    ELSE IF Len(approvers) = 1 THEN <<approvers[1]>>
    ELSE <<approvers[1], ",">> \o join(Tail(approvers))

\* text.split(","): the tokens between separators ("".split(",") is [""]).
RECURSIVE split(_)
split(text) ==
    IF text = <<>> THEN <<"">>
    ELSE IF Len(text) = 1 THEN <<text[1]>>
    ELSE <<text[1]>> \o split(Tail(Tail(text)))

\* `r["approvers"].split(",") if r["approvers"] else []`
parse_approvers(text) == IF text # None THEN split(text) ELSE <<>>

\* ------------------------------------------------------------------ state
VARIABLES
    gpu_pool,       \* table gpu_pool: gpu_type -> total
    services,       \* table services: set of service_name
    gpu_usage,      \* table gpu_usage: rows in id order
    reservations,   \* table reservations: rows in id order
    seq,            \* sqlite_sequence of reservations (last id handed out)
    session_state,  \* st.session_state of each session
    pc,             \* where each session's script run stands
    r,              \* the row a run read at line 277 and is about to approve
    raced,          \* history: since this session's last read at line 277,
                    \* another run wrote the same row from the same read
    today           \* date.today()

vars == <<gpu_pool, services, gpu_usage, reservations, seq, session_state,
          pc, r, raced, today>>

NoRow == [id |-> 0, status |-> "pending", approvers |-> None]

\* Rows of gpu_usage are written by other programs; these are the table
\* contents the dashboard is started on.
UsageRow(id, s, e, t, c) ==
    [id |-> id, start_date |-> s, end_date |-> e, gpu_type |-> t,
     service_name |-> "svc1", count |-> c, source |-> "manual"]

UsageInputs ==
    { <<>>,
      << UsageRow(1, strftime(0), strftime(2), "A100", 2),
         UsageRow(2, strftime(1), strftime(0), "H100", 3),
         UsageRow(3, strftime(1), None, "V100", 1) >> }

\* lines 13-53, 121-125: empty tables, fresh session flags.
Init ==
    /\ gpu_pool = [t \in {} |-> 0]
    /\ services = {}
    /\ gpu_usage \in UsageInputs
    /\ reservations = <<>>
    /\ seq = 0
    /\ session_state = [s \in Sessions |->
                          [admin_mode |-> FALSE, admin_authenticated |-> FALSE]]
    /\ pc = [s \in Sessions |-> "idle"]
    /\ r = [s \in Sessions |-> NoRow]
    /\ raced = [s \in Sessions |-> FALSE]
    /\ today = 0

\* ------------------------------------------------------- helper functions
\* get_gpu_pool(): dict gpu_type -> total
get_gpu_pool == gpu_pool

\* update_gpu_total: INSERT ... ON CONFLICT(gpu_type) DO UPDATE SET total
update_gpu_total(pool, gpu_type, total) ==
    [t \in (DOMAIN pool) \cup {gpu_type} |->
        IF t = gpu_type THEN total ELSE pool[t]]

\* add_service: INSERT OR IGNORE
add_service(svcs, service_name) == svcs \cup {service_name}

\* add_reservation: INSERT with the column defaults status='pending',
\* approvers=''; the id is the next value of the AUTOINCREMENT sequence.
add_reservation(tbl, id, start_date, end_date, service, gpu_type, count) ==
    Append(tbl, [id |-> id, start_date |-> start_date, end_date |-> end_date,
                 gpu_type |-> gpu_type, service_name |-> service,
                 count |-> count, status |-> "pending", approvers |-> None])

\* update_approvers appending the newest approver to the stored cell
\* (SET approvers = approvers || ',' || ?) instead of overwriting it
update_approvers_append(tbl, resv_id, approvers, status) ==
    [i \in DOMAIN tbl |->
        IF tbl[i].id = resv_id
        THEN [tbl[i] EXCEPT
                !.approvers = IF tbl[i].approvers = None
                              THEN <<approvers[Len(approvers)]>>
                              ELSE tbl[i].approvers \o <<",", approvers[Len(approvers)]>>,
                !.status = status]
        ELSE tbl[i]]

\* update_approvers: UPDATE ... SET approvers=?, status=? WHERE id=?
update_approvers(tbl, resv_id, approvers, status) ==
    [i \in DOMAIN tbl |->
        IF tbl[i].id = resv_id
        THEN [tbl[i] EXCEPT !.approvers = approvers, !.status = status]
        ELSE tbl[i]]

\* delete_reservation with the comparison inverted (WHERE id != ?)
delete_reservation_others(tbl, resv_id) ==
    SelectSeq(tbl, LAMBDA row : row.id = resv_id)

\* delete_reservation with a range comparison (WHERE id <= ?)
delete_reservation_upto(tbl, resv_id) ==
    SelectSeq(tbl, LAMBDA row : row.id > resv_id)

\* delete_reservation: DELETE FROM reservations WHERE id=?
delete_reservation(tbl, resv_id) ==
    SelectSeq(tbl, LAMBDA row : row.id # resv_id)

\* ------------------------------------------------- read model (lines 162-248)
RECURSIVE SumCount(_)
SumCount(rows) ==
    IF rows = <<>> THEN 0 ELSE Head(rows).count + SumCount(Tail(rows))

\* current_usage adding the approved reservations to the usage rows
current_usage_with_approved(pool, usage_df) ==
    [t \in DOMAIN pool |->
        SumCount(SelectSeq(usage_df, LAMBDA row : row.gpu_type = t))
        + SumCount(SelectSeq(reservations,
                LAMBDA row : row.gpu_type = t /\ row.status = "approved"))]

\* lines 164-168: usage summed per pool type, other types skipped.
current_usage(pool, usage_df) ==
    [t \in DOMAIN pool |->
        SumCount(SelectSeq(usage_df, LAMBDA row : row.gpu_type = t))]

\* pool_df with the available value clamped at zero (max(0, total - used))
pool_df_clamped(pool, usage_df) ==
    [t \in DOMAIN pool |->
        [Total |-> pool[t],
         Used |-> current_usage(pool, usage_df)[t],
         Available |-> IF pool[t] - current_usage(pool, usage_df)[t] < 0 THEN 0
                       ELSE pool[t] - current_usage(pool, usage_df)[t]]]

\* lines 170-178: one snapshot row per pool type.
pool_df(pool, usage_df) ==
    [t \in DOMAIN pool |->
        [Total |-> pool[t],
         Used |-> current_usage(pool, usage_df)[t],
         Available |-> pool[t] - current_usage(pool, usage_df)[t]]]

\* lines 187-191: SELECT ... FROM reservations WHERE status='approved',
\* plus the column source = "reservation".
ApprovedRow(row) ==
    [id |-> row.id, start_date |-> row.start_date, end_date |-> row.end_date,
     gpu_type |-> row.gpu_type, service_name |-> row.service_name,
     count |-> row.count, status |-> row.status, source |-> "reservation"]

\* approved_df without the WHERE clause
approved_df_all(tbl) == [i \in DOMAIN tbl |-> ApprovedRow(tbl[i])]

approved_df(tbl) ==
    LET sel == SelectSeq(tbl, LAMBDA row : row.status = "approved")
    IN  [i \in DOMAIN sel |-> ApprovedRow(sel[i])]

\* lines 193-199: pd.concat fills the column usage rows lack (status) with NaN.
combined_df(usage_df, approved) ==
    IF usage_df # <<>>
    THEN [i \in DOMAIN usage_df |->
            [id |-> usage_df[i].id, start_date |-> usage_df[i].start_date,
             end_date |-> usage_df[i].end_date, gpu_type |-> usage_df[i].gpu_type,
             service_name |-> usage_df[i].service_name,
             count |-> usage_df[i].count, status |-> "NaN",
             source |-> usage_df[i].source]] \o approved
    ELSE approved

\* lines 216-223 / 227-234: one timeline row per day of the record's range.
expand(row) ==
    LET start == to_datetime(row.start_date)
        end   == IF row.end_date # None THEN to_datetime(row.end_date) ELSE start
        days  == date_range(start, end)
    IN  [i \in DOMAIN days |->
            [date |-> strftime(days[i]), gpu_type |-> row.gpu_type,
             count |-> row.count]]

RECURSIVE expand_all(_)
expand_all(df) ==
    IF df = <<>> THEN <<>> ELSE expand(Head(df)) \o expand_all(Tail(df))

\* timeline_rows without the second loop (approved reservations)
timeline_rows_usage_only(usage_df, approved) == expand_all(usage_df)

\* lines 212-234: usage rows first, then approved reservations.
timeline_rows(usage_df, approved) == expand_all(usage_df) \o expand_all(approved)

\* daily_usage keeping the first row of each group (.first() for .sum())
daily_usage_first(timeline_df) ==
    [k \in {<<timeline_df[i].date, timeline_df[i].gpu_type>> : i \in DOMAIN timeline_df} |->
        Head(SelectSeq(timeline_df,
                       LAMBDA row : row.date = k[1] /\ row.gpu_type = k[2])).count]

\* line 239: groupby(["date", "gpu_type"]).sum()
daily_usage(timeline_df) ==
    [k \in {<<timeline_df[i].date, timeline_df[i].gpu_type>> : i \in DOMAIN timeline_df} |->
        SumCount(SelectSeq(timeline_df,
                           LAMBDA row : row.date = k[1] /\ row.gpu_type = k[2]))]

\* line 244: daily_pivot.get(gpu_type, 0) for one date's row.
pivot_get(prow, col) == IF col \in DOMAIN prow THEN prow[col] ELSE 0

\* lines 238-246: pivot on date x gpu_type with fillna(0), then one
\* "<gpu_type>_available" column per pool type; no table when there are no rows.
daily_pivot(pool, usage_df, approved) ==
    LET timeline_df == timeline_rows(usage_df, approved)
        du    == daily_usage(timeline_df)
        dates == {k[1] : k \in DOMAIN du}
        types == {k[2] : k \in DOMAIN du}
        base  == [d \in dates |-> [c \in types |->
                    IF <<d, c>> \in DOMAIN du THEN du[<<d, c>>] ELSE 0]]
        avail == {t \o "_available" : t \in DOMAIN pool}
        total_of(c) == pool[CHOOSE t \in DOMAIN pool : t \o "_available" = c]
        base_of(c)  == CHOOSE t \in DOMAIN pool : t \o "_available" = c
    IN  IF timeline_df = <<>> THEN [d \in {} |-> 0]
        ELSE [d \in dates |-> [c \in types \cup avail |->
                IF c \in avail THEN total_of(c) - pivot_get(base[d], base_of(c))
                ELSE base[d][c]]]

\* ------------------------------------------------ approval (lines 290-294)
\* approve with the quorum test off by one (`>= 2`)
approve_early(row) ==
    LET approvers     == parse_approvers(row.approvers)
        next_approver == member(Len(approvers) + 1)
        appended      == IF \A i \in DOMAIN approvers : approvers[i] # next_approver
                         THEN Append(approvers, next_approver) ELSE approvers
        status        == IF Len(appended) >= REQUIRED_APPROVALS - 1
                         THEN "approved" ELSE "pending"
    IN  [approvers |-> join(appended), status |-> status]

\* approve numbering the next approver one too high (len(approvers)+2)
approve_skip_member(row) ==
    LET approvers     == parse_approvers(row.approvers)
        next_approver == member(Len(approvers) + 2)
        appended      == IF \A i \in DOMAIN approvers : approvers[i] # next_approver
                         THEN Append(approvers, next_approver) ELSE approvers
        status        == IF Len(appended) >= REQUIRED_APPROVALS
                         THEN "approved" ELSE "pending"
    IN  [approvers |-> join(appended), status |-> status]

approve(row) ==
    LET approvers     == parse_approvers(row.approvers)
        next_approver == member(Len(approvers) + 1)
        appended      == IF \A i \in DOMAIN approvers : approvers[i] # next_approver
                         THEN Append(approvers, next_approver) ELSE approvers
        status        == IF Len(appended) >= REQUIRED_APPROVALS
                         THEN "approved" ELSE "pending"
    IN  [approvers |-> join(appended), status |-> status]

\* ---------------------------------------------------------------- actions
Idle(s) == pc[s] = "idle"

\* lines 131-132: the sidebar button "Admin".
AdminButton(s) ==
    /\ Idle(s)
    /\ session_state' = [session_state EXCEPT ![s].admin_mode = TRUE]
    /\ UNCHANGED <<gpu_pool, services, gpu_usage, reservations, seq, pc, r,
                   raced, today>>

\* lines 135-145: the login box is shown in admin mode while not authenticated.
SubmitAdminPassword(s, admin_pw) ==
    /\ Idle(s)
    /\ session_state[s].admin_mode /\ ~session_state[s].admin_authenticated
    /\ session_state' =
         [session_state EXCEPT ![s] =
            IF admin_pw = "abcd"
            THEN [admin_mode |-> FALSE, admin_authenticated |-> TRUE]
            ELSE [admin_mode |-> FALSE, admin_authenticated |-> FALSE]]
    /\ UNCHANGED <<gpu_pool, services, gpu_usage, reservations, seq, pc, r,
                   raced, today>>

\* lines 148-151: "Logout Admin".
LogoutAdmin(s) ==
    /\ Idle(s)
    /\ session_state[s].admin_authenticated
    /\ session_state' = [session_state EXCEPT ![s].admin_authenticated = FALSE]
    /\ UNCHANGED <<gpu_pool, services, gpu_usage, reservations, seq, pc, r,
                   raced, today>>

\* lines 255-268: the reservation form.  The form is there only when a
\* service is registered; with an empty pool the GPU selectbox yields None
\* and the INSERT fails on NOT NULL, storing nothing.
Reserve(s, start_date, end_date, service, gpu_type, count) ==
    /\ Idle(s)
    /\ services # {}
    /\ service \in services
    /\ gpu_type \in DOMAIN get_gpu_pool
    /\ today <= start_date /\ start_date <= today + MaxAhead
    /\ count >= 1
    /\ seq < MaxResv
    /\ seq' = seq + 1
    /\ reservations' = add_reservation(reservations, seq + 1, strftime(start_date),
                                       end_date, service, gpu_type, count)
    /\ UNCHANGED <<gpu_pool, services, gpu_usage, session_state, pc, r, raced,
                   today>>

\* the "Approve #id" button offered on every row (no `status != "approved"`)
ReadReservations_any(s, i) ==
    /\ Idle(s)
    /\ i \in DOMAIN reservations
    /\ r' = [r EXCEPT ![s] = [id |-> reservations[i].id,
                              status |-> reservations[i].status,
                              approvers |-> reservations[i].approvers]]
    /\ pc' = [pc EXCEPT ![s] = "approve"]
    /\ raced' = [raced EXCEPT ![s] = FALSE]
    /\ UNCHANGED <<gpu_pool, services, gpu_usage, reservations, seq,
                   session_state, today>>

\* lines 277-289: the run reads the table and reaches the clicked
\* "Approve #id" button of a row it read as not approved.
ReadReservations(s, i) ==
    /\ Idle(s)
    /\ i \in DOMAIN reservations
    /\ reservations[i].status # "approved"
    /\ r' = [r EXCEPT ![s] = [id |-> reservations[i].id,
                              status |-> reservations[i].status,
                              approvers |-> reservations[i].approvers]]
    /\ pc' = [pc EXCEPT ![s] = "approve"]
    /\ raced' = [raced EXCEPT ![s] = FALSE]
    /\ UNCHANGED <<gpu_pool, services, gpu_usage, reservations, seq,
                   session_state, today>>

\* lines 290-295: the new list and status come from the row as it was read.
ApproveWrite(s) ==
    /\ pc[s] = "approve"
    /\ reservations' = update_approvers(reservations, r[s].id,
                                        approve(r[s]).approvers, approve(r[s]).status)
    /\ pc' = [pc EXCEPT ![s] = "idle"]
    /\ r' = [r EXCEPT ![s] = NoRow]
    /\ raced' = [t \in Sessions |->
                   IF t = s THEN raced[s]
                   ELSE raced[t] \/ (pc[t] = "approve" /\ r[t].id = r[s].id
                                     /\ r[t].approvers = r[s].approvers)]
    /\ UNCHANGED <<gpu_pool, services, gpu_usage, seq, session_state, today>>

\* lines 277-295 run without another session's run in between: the row read
\* at line 277 is the stored row when line 295 writes.
Approve(s, i) ==
    /\ Idle(s)
    /\ i \in DOMAIN reservations
    /\ reservations[i].status # "approved"
    /\ reservations' = update_approvers(reservations, reservations[i].id,
                                        approve(reservations[i]).approvers,
                                        approve(reservations[i]).status)
    /\ UNCHANGED <<gpu_pool, services, gpu_usage, seq, session_state, pc, r,
                   raced, today>>

\* lines 296-297: "Cancel #id" of a row the run read.
Cancel(s, i) ==
    /\ Idle(s)
    /\ i \in DOMAIN reservations
    /\ reservations' = delete_reservation(reservations, reservations[i].id)
    /\ UNCHANGED <<gpu_pool, services, gpu_usage, seq, session_state, pc, r,
                   raced, today>>

\* "Add GPU Type" offered outside the `if admin_authenticated:` block
AddGpuType_open(s, new_gpu, new_total) ==
    /\ Idle(s)
    /\ new_total >= 1
    /\ gpu_pool' = update_gpu_total(gpu_pool, new_gpu, new_total)
    /\ UNCHANGED <<services, gpu_usage, reservations, seq, session_state, pc, r,
                   raced, today>>

\* lines 307-314: "Add GPU Type" with a non-empty name.
AddGpuType(s, new_gpu, new_total) ==
    /\ Idle(s)
    /\ session_state[s].admin_authenticated
    /\ new_total >= 1
    /\ gpu_pool' = update_gpu_total(gpu_pool, new_gpu, new_total)
    /\ UNCHANGED <<services, gpu_usage, reservations, seq, session_state, pc, r,
                   raced, today>>

\* lines 315-319: "Update Total" of a type chosen from the pool.
UpdateTotal(s, gpu_edit, edited_total) ==
    /\ Idle(s)
    /\ session_state[s].admin_authenticated
    /\ gpu_edit \in DOMAIN get_gpu_pool
    /\ edited_total >= 1
    /\ gpu_pool' = update_gpu_total(gpu_pool, gpu_edit, edited_total)
    /\ UNCHANGED <<services, gpu_usage, reservations, seq, session_state, pc, r,
                   raced, today>>

\* lines 323-327: "Add Service" with a non-empty name.
AddService(s, new_service) ==
    /\ Idle(s)
    /\ session_state[s].admin_authenticated
    /\ services' = add_service(services, new_service)
    /\ UNCHANGED <<gpu_pool, gpu_usage, reservations, seq, session_state, pc, r,
                   raced, today>>

\* midnight: date.today() moves on.
Tick ==
    /\ today + 1 \in Days
    /\ today' = today + 1
    /\ UNCHANGED <<gpu_pool, services, gpu_usage, reservations, seq,
                   session_state, pc, r, raced>>

\* "End Date (Optional)" has no min_value: any date, or left empty.
EndDateInputs == {None, strftime(0), strftime(2)}

SessionStep(s) ==
    \/ AdminButton(s)
    \/ \E admin_pw \in PasswordInputs : SubmitAdminPassword(s, admin_pw)
    \/ LogoutAdmin(s)
    \/ \E start_date \in Days, end_date \in EndDateInputs,
          service \in ServiceInputs, gpu_type \in GpuTypeInputs,
          count \in CountInputs :
            Reserve(s, start_date, end_date, service, gpu_type, count)
    \/ \E i \in 1 .. MaxResv : ReadReservations(s, i)
    \/ ApproveWrite(s)
    \/ \E i \in 1 .. MaxResv : Cancel(s, i)
    \/ \E new_gpu \in GpuTypeInputs, new_total \in TotalInputs :
            AddGpuType(s, new_gpu, new_total)
    \/ \E gpu_edit \in GpuTypeInputs, edited_total \in TotalInputs :
            UpdateTotal(s, gpu_edit, edited_total)
    \/ \E new_service \in ServiceInputs : AddService(s, new_service)

\* Sessions run in their own threads: any session may take the next step.
Next == (\E s \in Sessions : SessionStep(s)) \/ Tick

\* The complete program, started on a database that holds usage rows only.
\* Its state space is the product of three parts that meet only in the pool
\* and the service list: the admin sidebar and management section, the
\* reservation lifecycle, and the read model.  The parts are checked under
\* SpecAdmin, SpecSerial and SpecRace below.
Spec == Init /\ [][Next]_vars

\* The admin part: login, logout, and the pool and service edits of
\* authenticated sessions, from the empty pool.
AdminStep(s) ==
    \/ AdminButton(s)
    \/ \E admin_pw \in PasswordInputs : SubmitAdminPassword(s, admin_pw)
    \/ LogoutAdmin(s)
    \/ \E new_gpu \in GpuTypeInputs, new_total \in TotalInputs :
            AddGpuType(s, new_gpu, new_total)
    \/ \E gpu_edit \in GpuTypeInputs, edited_total \in TotalInputs :
            UpdateTotal(s, gpu_edit, edited_total)
    \/ \E new_service \in ServiceInputs : AddService(s, new_service)

NextAdmin == \E s \in Sessions : AdminStep(s)

SpecAdmin == Init /\ [][NextAdmin]_vars

\* The database file outlives the process (CREATE TABLE IF NOT EXISTS): the
\* dashboard started on a database whose pool and services an admin has
\* already filled in, used by sessions that reserve, approve and cancel.
StockedPool ==
    update_gpu_total(update_gpu_total([t \in {} |-> 0], "A100", 10), "H100", 1)

InitStocked ==
    /\ gpu_pool = StockedPool
    /\ services = add_service({}, "svc1")
    /\ gpu_usage \in UsageInputs
    /\ reservations = <<>>
    /\ seq = 0
    /\ session_state = [s \in Sessions |->
                          [admin_mode |-> FALSE, admin_authenticated |-> FALSE]]
    /\ pc = [s \in Sessions |-> "idle"]
    /\ r = [s \in Sessions |-> NoRow]
    /\ raced = [s \in Sessions |-> FALSE]
    /\ today = 0

\* Serialized use: every script run is one step, none is interleaved with
\* another session's.
SerialStep(s) ==
    \/ \E start_date \in Days, end_date \in EndDateInputs,
          service \in ServiceInputs, gpu_type \in GpuTypeInputs,
          count \in CountInputs :
            Reserve(s, start_date, end_date, service, gpu_type, count)
    \/ \E i \in 1 .. MaxResv : Approve(s, i)
    \/ \E i \in 1 .. MaxResv : Cancel(s, i)

NextSerial == (\E s \in Sessions : SerialStep(s)) \/ Tick

SpecSerial == InitStocked /\ [][NextSerial]_vars

\* Concurrent use: the sessions' threads interleave between a run's read of
\* the reservations (line 277) and its write (line 295).  The dates and
\* counts of a reservation play no part in approval, so one form fill per
\* GPU type is entered.
RaceStep(s) ==
    \/ \E gpu_type \in GpuTypeInputs, count \in CountInputs :
            Reserve(s, today, None, "svc1", gpu_type, count)
    \/ \E i \in 1 .. MaxResv : ReadReservations(s, i)
    \/ ApproveWrite(s)
    \/ \E i \in 1 .. MaxResv : Cancel(s, i)

NextRace == \E s \in Sessions : RaceStep(s)

SpecRace == InitStocked /\ [][NextRace]_vars

\* Approve kept being invoked on reservations that nobody deletes: the
\* sessions reserve and approve, their reads (line 277) and writes (line 295)
\* interleaving.  A script run that has read goes on to its write (the
\* session's thread runs the script to its end), and the "Approve #id"
\* button of a reservation that stays on offer is clicked again.
ApproveRead(s, id) ==
    \E i \in 1 .. MaxResv :
        /\ i \in DOMAIN reservations
        /\ reservations[i].id = id
        /\ ReadReservations(s, i)

LiveStep(s) ==
    \/ \E gpu_type \in GpuTypeInputs, count \in CountInputs :
            Reserve(s, today, None, "svc1", gpu_type, count)
    \/ \E i \in 1 .. MaxResv : ReadReservations(s, i)
    \/ ApproveWrite(s)

NextLive == \E s \in Sessions : LiveStep(s)

SpecLive ==
    /\ InitStocked
    /\ [][NextLive]_vars
    /\ \A s \in Sessions : WF_vars(ApproveWrite(s))
    /\ \A id \in 1 .. MaxResv : WF_vars(\E s \in Sessions : ApproveRead(s, id))

\* ================================================================ claims
Distinct(xs) == \A i, j \in DOMAIN xs : i # j => xs[i] # xs[j]

Members == <<"member1", "member2", "member3">>

ApproversOf(row) == parse_approvers(row.approvers)

Stored(tbl, id) == \E i \in DOMAIN tbl : tbl[i].id = id

RowOf(tbl, id) == tbl[CHOOSE i \in DOMAIN tbl : tbl[i].id = id]

\* the step in which session s ends an approve run (line 295 has executed)
ApproveDone(s) == pc[s] = "approve" /\ pc'[s] = "idle"

IdOf(tbl, i) == tbl[i].id

\* C1: under serialized create, approve and delete, every stored reservation
\* is 'approved' exactly when its approvers list has at least 3 entries, all
\* pairwise distinct.
C1_ApprovedIffQuorum ==
    \A i \in DOMAIN reservations :
        (reservations[i].status = "approved")
            <=> ( Len(ApproversOf(reservations[i])) >= 3
                  /\ Distinct(ApproversOf(reservations[i])) )

\* an approved reservation beside one that has two approvers and is pending
C1_Witness ==
    \E i, j \in DOMAIN reservations :
        /\ reservations[i].status = "approved"
        /\ reservations[j].status = "pending"
        /\ Len(ApproversOf(reservations[j])) = 2

\* C2: a created reservation starts 'pending' with no approvers, and each of
\* three sequential approve calls appends the next member: after the call
\* made at k approvers the list is [member1 .. member(k+1)], and the status
\* is pending, pending, approved for k = 0, 1, 2.
C2_SequentialApprovals ==
    [][ /\ \A j \in DOMAIN reservations' :
             reservations'[j].id > seq =>
                /\ reservations'[j].status = "pending"
                /\ ApproversOf(reservations'[j]) = <<>>
        /\ \A i \in DOMAIN reservations : (\E s \in Sessions : Approve(s, i)) =>
             /\ Stored(reservations', IdOf(reservations, i))
             /\ LET k     == Len(ApproversOf(reservations[i]))
                    after == RowOf(reservations', IdOf(reservations, i))
                IN  /\ k < 3
                    /\ ApproversOf(after) = SubSeq(Members, 1, k + 1)
                    /\ after.status = IF k + 1 = 3 THEN "approved" ELSE "pending"
      ]_vars

\* a reservation that three approve calls have brought to [member1..member3]
C2_Witness ==
    \E i \in DOMAIN reservations :
        /\ ApproversOf(reservations[i]) = Members
        /\ reservations[i].status = "approved"
        /\ \A s \in Sessions : pc[s] = "idle"

\* what a read of the current database shows
DetailView == combined_df(gpu_usage, approved_df(reservations))

Timeline == daily_pivot(get_gpu_pool, gpu_usage, approved_df(reservations))

\* the used value the timeline piv shows for a date text and a GPU type
Used(piv, dt, t) == IF dt \in DOMAIN piv THEN pivot_get(piv[dt], t) ELSE 0

InView(view, id) ==
    \E k \in DOMAIN view : view[k].source = "reservation" /\ view[k].id = id

\* C3: a reservation is in the detail view and adds to the timeline only if
\* its stored status is 'approved'; a pending reservation adds nothing to
\* any date (the timeline is the one read without it).
C3_OnlyApprovedCounted ==
    LET view == DetailView
        piv  == Timeline
    IN  /\ \A k \in DOMAIN view :
              view[k].source = "reservation" =>
                 /\ Stored(reservations, view[k].id)
                 /\ RowOf(reservations, view[k].id).status = "approved"
        /\ \A i \in DOMAIN reservations :
              reservations[i].status # "approved" =>
                 /\ ~InView(view, reservations[i].id)
                 /\ piv = daily_pivot(get_gpu_pool, gpu_usage,
                         approved_df(SelectSeq(reservations,
                             LAMBDA row : row.id # reservations[i].id)))

\* a reservation two approvals in, still pending, beside an approved one that
\* the timeline shows
C3_Witness ==
    \E i, j \in DOMAIN reservations :
        /\ reservations[i].status = "pending"
        /\ Len(ApproversOf(reservations[i])) = 2
        /\ reservations[j].status = "approved"
        /\ InView(DetailView, reservations[j].id)
        /\ reservations[j].start_date \in DOMAIN Timeline

\* C4: once approved, a reservation stays approved with the same approvers
\* until it is deleted, and the number of approvers stored for a reservation
\* never decreases, whatever the interleaving of the sessions' approve runs.
C4_ApprovedIsTerminal ==
    [][ \A i \in DOMAIN reservations :
          Stored(reservations', reservations[i].id) =>
            LET after == RowOf(reservations', reservations[i].id)
            IN  /\ Len(ApproversOf(after)) >= Len(ApproversOf(reservations[i]))
                /\ reservations[i].status = "approved" =>
                      /\ after.status = "approved"
                      /\ after.approvers = reservations[i].approvers
      ]_vars

\* C5: when two approve runs read the same reservation at N approvers before
\* either wrote, then once both have written the stored list has exactly N+1
\* entries, ending in member(N+1), without duplicate, and the status is
\* 'approved' only if N+1 >= 3.
C5_RaceOneNetApprover ==
    [][ \A s \in Sessions :
          (ApproveDone(s) /\ raced[s] /\ Stored(reservations', r[s].id)) =>
            LET N     == Len(ApproversOf(r[s]))
                after == RowOf(reservations', r[s].id)
            IN  /\ N < 3
                /\ Len(ApproversOf(after)) = N + 1
                /\ ApproversOf(after)[N + 1] = Members[N + 1]
                /\ Distinct(ApproversOf(after))
                /\ after.status = "approved" => N + 1 >= 3
      ]_vars

\* both runs of a race have written, and the reservation is still stored
C5_Witness ==
    \E s \in Sessions :
        /\ pc[s] = "idle"
        /\ raced[s]
        /\ reservations # <<>>

\* the day ordinals a record's inclusive range [start_date, end_date] covers
\* (end_date absent meaning start_date)
FirstDay(row) == to_datetime(row.start_date)

LastDay(row) ==
    IF row.end_date # None THEN to_datetime(row.end_date) ELSE FirstDay(row)

Covers(row, d) == FirstDay(row) <= d /\ d <= LastDay(row)

\* the sum of count over the rows of type t whose range covers day d
CoverSum(rows, d, t) ==
    SumCount(SelectSeq(rows, LAMBDA row : row.gpu_type = t /\ Covers(row, d)))

ApprovedStored(tbl) == SelectSeq(tbl, LAMBDA row : row.status = "approved")

Malformed(row) == LastDay(row) < FirstDay(row)

\* every day a record of the model can name
CalendarDays == 0 .. 3

\* the read that follows the deletion of `gone`, on the table `tbl` the
\* deletion left (pool and usage records are as before it): `gone` is not in
\* the detail view, and every used total of the timeline is the sum over the
\* usage records and the approved reservations other than `gone`
ReadWithout(gone, before, tbl) ==
    LET rest == SelectSeq(ApprovedStored(before), LAMBDA row : row.id # gone.id)
        view == combined_df(gpu_usage, approved_df(tbl))
        piv  == daily_pivot(get_gpu_pool, gpu_usage, approved_df(tbl))
    IN  /\ ~InView(view, gone.id)
        /\ \A d \in CalendarDays : \A t \in DOMAIN gpu_pool :
              Used(piv, strftime(d), t)
                 = CoverSum(gpu_usage, d, t) + CoverSum(rest, d, t)

\* C6: after delete(reservation_id) the next read shows the reservation in
\* neither the detail view nor the timeline (its count is in no date's used
\* total), whether the reservation was pending or approved.
C6_DeletedLeavesViews ==
    [][ \A i \in DOMAIN reservations :
          (\E s \in Sessions : Cancel(s, i)) =>
             ReadWithout(reservations[i], reservations, reservations')
      ]_vars

\* reservation #1 has been deleted; reservation #2 is approved and shown
C6_Witness ==
    /\ seq = 2
    /\ Len(reservations) = 1
    /\ reservations[1].id = 2
    /\ reservations[1].status = "approved"
    /\ InView(DetailView, 2)

\* C7: for every date of the timeline and every GPU type of the pool, used is
\* the sum of count over the usage records and approved reservations of that
\* type whose inclusive range covers the date (0 when there is none), and
\* available is total - used.
C7_TimelineSums ==
    LET piv == Timeline
    IN  \A dt \in DOMAIN piv : \A t \in DOMAIN gpu_pool :
            LET used == CoverSum(gpu_usage, to_datetime(dt), t)
                        + CoverSum(ApprovedStored(reservations), to_datetime(dt), t)
            IN  /\ Used(piv, dt, t) = used
                /\ piv[dt][t \o "_available"] = gpu_pool[t] - used

\* the usage record of 2 A100 over three days against a total of 10 shows
\* used 2, available 8 on its last day, and on its first day an approved
\* reservation's count is added to it
C7_Witness ==
    /\ strftime(0) \in DOMAIN Timeline /\ strftime(2) \in DOMAIN Timeline
    /\ "A100" \in DOMAIN gpu_pool /\ gpu_pool["A100"] = 10
    /\ Used(Timeline, strftime(2), "A100") = 2
    /\ Timeline[strftime(2)]["A100_available"] = 8
    /\ Used(Timeline, strftime(0), "A100") = 4
    /\ Timeline[strftime(0)]["A100_available"] = 6

\* the single-day reservations that stand for one reservation of several days
SingleDays(row, end_date_given) ==
    [i \in 1 .. (LastDay(row) - FirstDay(row) + 1) |->
        [row EXCEPT !.start_date = strftime(FirstDay(row) + (i - 1)),
                    !.end_date = IF end_date_given
                                 THEN strftime(FirstDay(row) + (i - 1)) ELSE None]]

Replace(rows, i, by) ==
    SubSeq(rows, 1, i - 1) \o by \o SubSeq(rows, i + 1, Len(rows))

\* C8: replacing an approved reservation that spans N days by N single-day
\* approved reservations of the same type and count, one per covered day,
\* leaves the timeline identical.
C8_TimelineAdditive ==
    LET approved == approved_df(reservations)
        piv      == Timeline
    IN  \A i \in DOMAIN approved : \A end_date_given \in BOOLEAN :
            ~Malformed(approved[i]) =>
                daily_pivot(get_gpu_pool, gpu_usage,
                            Replace(approved, i, SingleDays(approved[i], end_date_given)))
                    = piv

\* an approved reservation of three days is stored
C8_Witness ==
    \E i \in DOMAIN reservations :
        /\ reservations[i].status = "approved"
        /\ LastDay(reservations[i]) - FirstDay(reservations[i]) + 1 = 3

\* the timeline read with one usage record, or one reservation, left out
TimelineWithoutUsage(id) ==
    daily_pivot(get_gpu_pool, SelectSeq(gpu_usage, LAMBDA row : row.id # id),
                approved_df(reservations))

TimelineWithoutReservation(id) ==
    daily_pivot(get_gpu_pool, gpu_usage,
                approved_df(SelectSeq(reservations, LAMBDA row : row.id # id)))

\* what record `row` adds to the timeline: its count on start_date, nothing
\* on any other date
CountsStartDateOnly(row, with, without) ==
    \A d \in CalendarDays :
        Used(with, strftime(d), row.gpu_type)
            - Used(without, strftime(d), row.gpu_type)
          = IF d = FirstDay(row) THEN row.count ELSE 0

\* C9 as stated: a usage record or approved reservation whose end_date
\* precedes its start_date adds its count to start_date exactly once and to
\* no other date.
C9_MalformedCountsStartDate ==
    LET piv == Timeline
    IN  /\ \A i \in DOMAIN gpu_usage :
              Malformed(gpu_usage[i]) =>
                 LET without == TimelineWithoutUsage(gpu_usage[i].id)
                 IN  CountsStartDateOnly(gpu_usage[i], piv, without)
        /\ \A i \in DOMAIN reservations :
              (reservations[i].status = "approved" /\ Malformed(reservations[i])) =>
                 LET without == TimelineWithoutReservation(reservations[i].id)
                 IN  CountsStartDateOnly(reservations[i], piv, without)

\* C9 amended: such a record adds nothing to any date, start_date included
\* (the timeline is the one read without the record), and the read does not
\* fail.
C9_MalformedCountsNowhere ==
    LET piv == Timeline
    IN  /\ \A i \in DOMAIN gpu_usage :
              Malformed(gpu_usage[i]) =>
                 piv = TimelineWithoutUsage(gpu_usage[i].id)
        /\ \A i \in DOMAIN reservations :
              (reservations[i].status = "approved" /\ Malformed(reservations[i])) =>
                 piv = TimelineWithoutReservation(reservations[i].id)

\* a malformed usage record and a malformed approved reservation are stored,
\* and the timeline has rows
C9_Witness ==
    /\ \E i \in DOMAIN gpu_usage : Malformed(gpu_usage[i])
    /\ \E i \in DOMAIN reservations :
          reservations[i].status = "approved" /\ Malformed(reservations[i])
    /\ DOMAIN Timeline # {}

\* C10: create rejects invalid input before persistence: no reservation is
\* stored with count < 1, with a start_date before the date of the request,
\* or with an end_date earlier than its start_date.
C10_CreateRejectsInvalid ==
    [][ \A j \in DOMAIN reservations' :
          reservations'[j].id > seq =>
             /\ reservations'[j].count >= 1
             /\ FirstDay(reservations'[j]) >= today
             /\ ~Malformed(reservations'[j])
      ]_vars

\* what a read of the current database shows as the snapshot table
Snapshot == pool_df(get_gpu_pool, gpu_usage)

\* the sum of count over the rows of `rows` at the indices in `idx`
RECURSIVE CountOver(_, _)
CountOver(rows, idx) ==
    IF idx = {} THEN 0
    ELSE LET i == CHOOSE j \in idx : TRUE
         IN  rows[i].count + CountOver(rows, idx \ {i})

UsageOfType(t) == {i \in DOMAIN gpu_usage : gpu_usage[i].gpu_type = t}

\* C11: the snapshot has exactly one row per GPU type of the pool; a row's
\* used value is the sum of count over the usage records of that type (0
\* when there are none; records of types outside the pool make no row), and
\* its available value is total - used, negative whenever used > total.
C11_SnapshotPerPoolType ==
    LET snap == Snapshot
    IN  /\ DOMAIN snap = DOMAIN gpu_pool
        /\ \A t \in DOMAIN snap :
              /\ snap[t].Total = gpu_pool[t]
              /\ snap[t].Used = CountOver(gpu_usage, UsageOfType(t))
              /\ snap[t].Used >= 0
              /\ snap[t].Available = snap[t].Total - snap[t].Used
              /\ snap[t].Used > snap[t].Total => snap[t].Available < 0

\* a pool of two types over usage records of A100, H100 and the unregistered
\* V100: H100 is over-allocated (used 3 of 1, available -2), A100 is not
C11_Witness ==
    /\ DOMAIN gpu_pool = {"A100", "H100"}
    /\ \E i \in DOMAIN gpu_usage : gpu_usage[i].gpu_type \notin DOMAIN gpu_pool
    /\ gpu_pool["H100"] = 1 /\ gpu_pool["A100"] = 10
    /\ Snapshot["H100"].Used = 3 /\ Snapshot["H100"].Available = -2
    /\ Snapshot["A100"].Used = 2 /\ Snapshot["A100"].Available = 8

\* the same operation executed once more, with the same arguments, on the
\* store its first execution left: the store is as the first execution left it
RetriedCreate ==
    \A s \in Sessions, start_date \in Days, end_date \in EndDateInputs,
       service \in ServiceInputs, gpu_type \in GpuTypeInputs, count \in CountInputs :
        Reserve(s, start_date, end_date, service, gpu_type, count) =>
            add_reservation(reservations', seq' + 1, strftime(start_date),
                            end_date, service, gpu_type, count) = reservations'

RetriedDelete ==
    \A s \in Sessions, i \in DOMAIN reservations :
        Cancel(s, i) =>
            delete_reservation(reservations', reservations[i].id) = reservations'

RetriedUpsert ==
    \A s \in Sessions, gpu_type \in GpuTypeInputs, total \in TotalInputs :
        (AddGpuType(s, gpu_type, total) \/ UpdateTotal(s, gpu_type, total)) =>
            update_gpu_total(gpu_pool', gpu_type, total) = gpu_pool'

RetriedRegistration ==
    \A s \in Sessions, service_name \in ServiceInputs :
        AddService(s, service_name) =>
            add_service(services', service_name) = services'

\* C12: every operation other than approve is idempotent to retry: create,
\* delete, the pool-total upsert and the service registration executed twice
\* in a row with the same arguments leave the store as executing them once
\* does; a retried create leaves no second reservation record.
C12_RetryIdempotent ==
    [][ RetriedCreate /\ RetriedDelete /\ RetriedUpsert /\ RetriedRegistration ]_vars

\* the operations of C12 other than create
C12_RetryIdempotentButCreate ==
    [][ RetriedDelete /\ RetriedUpsert /\ RetriedRegistration ]_vars

\* session s edits the pool in this step
PoolEdit(s) ==
    \E gpu_type \in GpuTypeInputs, total \in TotalInputs :
        AddGpuType(s, gpu_type, total) \/ UpdateTotal(s, gpu_type, total)

\* C13: the pool is created or updated only by an admin-privileged
\* operation and never loses a row: a step that adds a type or changes a
\* total is an edit by a session whose admin_authenticated is true;
\* admin_authenticated becomes true only by submitting the correct password
\* in admin mode, and a wrong password leaves it false; no step removes a
\* gpu_type, and an edit of an existing type leaves the number of rows as
\* it was.
C13_PoolAdminOnly ==
    [][ /\ gpu_pool' # gpu_pool =>
              \E s \in Sessions :
                  session_state[s].admin_authenticated /\ PoolEdit(s)
        /\ \A s \in Sessions :
              /\ (~session_state[s].admin_authenticated
                   /\ session_state'[s].admin_authenticated) =>
                     /\ session_state[s].admin_mode
                     /\ SubmitAdminPassword(s, "abcd")
              /\ \A admin_pw \in PasswordInputs \ {"abcd"} :
                     SubmitAdminPassword(s, admin_pw) =>
                        ~session_state'[s].admin_authenticated
        /\ DOMAIN gpu_pool \subseteq DOMAIN gpu_pool'
        /\ \A s \in Sessions, gpu_type \in DOMAIN gpu_pool, total \in TotalInputs :
              (AddGpuType(s, gpu_type, total) \/ UpdateTotal(s, gpu_type, total)) =>
                 /\ DOMAIN gpu_pool' = DOMAIN gpu_pool
                 /\ gpu_pool'[gpu_type] = total
                 /\ \A t \in DOMAIN gpu_pool \ {gpu_type} : gpu_pool'[t] = gpu_pool[t]
      ]_vars

\* an authenticated session beside one that is not (left in neither mode by
\* a submitted password or never logged in), over a pool of two types
C13_Witness ==
    /\ DOMAIN gpu_pool = {"A100", "H100"}
    /\ gpu_pool["A100"] = 10 /\ gpu_pool["H100"] = 1
    /\ \E s, t \in Sessions :
          /\ session_state[s].admin_authenticated
          /\ ~session_state[t].admin_authenticated
          /\ ~session_state[t].admin_mode

\* the columns the timeline may have when it is keyed on the pool's types
PoolColumns == DOMAIN gpu_pool \cup {t \o "_available" : t \in DOMAIN gpu_pool}

\* C14: records whose gpu_type is not in the pool are omitted from the
\* timeline: it has used/available columns only for GPU types of the pool,
\* and a usage record or approved reservation of an unregistered type adds
\* no column and no value (the timeline is the one read without the record).
C14_OrphansOmitted ==
    LET piv == Timeline
    IN  /\ \A dt \in DOMAIN piv : DOMAIN piv[dt] \subseteq PoolColumns
        /\ \A i \in DOMAIN gpu_usage :
              gpu_usage[i].gpu_type \notin DOMAIN gpu_pool =>
                 piv = TimelineWithoutUsage(gpu_usage[i].id)
        /\ \A i \in DOMAIN reservations :
              (reservations[i].status = "approved"
               /\ reservations[i].gpu_type \notin DOMAIN gpu_pool) =>
                 piv = TimelineWithoutReservation(reservations[i].id)

\* the rows of tbl other than row i, in their order
Others(tbl, i) == SubSeq(tbl, 1, i - 1) \o SubSeq(tbl, i + 1, Len(tbl))

\* C15: delete(reservation_id) removes exactly the reservation with that id,
\* whatever its status, and leaves all other reservations (status and
\* approvers included), the usage records, the pool and the services as they
\* were; deleting an id that is not stored changes nothing.
C15_DeleteFrame ==
    [][ /\ \A i \in DOMAIN reservations :
              (\E s \in Sessions : Cancel(s, i)) =>
                 /\ ~Stored(reservations', reservations[i].id)
                 /\ reservations' = Others(reservations, i)
                 /\ gpu_usage' = gpu_usage
                 /\ gpu_pool' = gpu_pool
                 /\ services' = services
        /\ \A id \in 1 .. (MaxResv + 1) :
              ~Stored(reservations, id) =>
                 delete_reservation(reservations, id) = reservations
      ]_vars

\* reservation #2 has been deleted; #1 is stored with the two approvers and
\* the status it had
C15_Witness ==
    /\ seq = 2
    /\ Len(reservations) = 1
    /\ reservations[1].id = 1
    /\ reservations[1].status = "pending"
    /\ ApproversOf(reservations[1]) = <<"member1", "member2">>
    /\ gpu_usage # <<>>

\* the list is [member1, ..., memberk] for some k from 0 to 3
MemberPrefix(approvers) ==
    \E k \in 0 .. REQUIRED_APPROVALS : approvers = SubSeq(Members, 1, k)

\* line 292 finds next_approver in the list the run parsed
GuardFinds(row) ==
    LET approvers == parse_approvers(row.approvers)
    IN  \E i \in DOMAIN approvers : approvers[i] = member(Len(approvers) + 1)

\* C16: in every reachable state the approvers list of every reservation is
\* [member1 .. memberk] with 0 <= k <= 3, and an approve run (serialized or
\* interleaved with others) never finds member(k+1) in the list it read.
C16_ApproversPrefix ==
    /\ \A i \in DOMAIN reservations : MemberPrefix(ApproversOf(reservations[i]))
    /\ \A s \in Sessions :
          pc[s] = "approve" =>
             /\ MemberPrefix(ApproversOf(r[s]))
             /\ Len(ApproversOf(r[s])) < REQUIRED_APPROVALS
             /\ ~GuardFinds(r[s])

\* reservation #1 holds all three members while an approve run stands at
\* line 290 with reservation #2 as it read it, two approvers in
C16_Witness ==
    /\ Len(reservations) = 2
    /\ ApproversOf(reservations[1]) = Members
    /\ \E s \in Sessions :
          /\ pc[s] = "approve"
          /\ r[s].id = reservations[2].id
          /\ ApproversOf(r[s]) = <<"member1", "member2">>

\* C17: the snapshot depends only on the usage records and the pool totals:
\* no create, approve or delete of a reservation changes any snapshot row,
\* and the snapshot's used value for the type of an approved reservation is
\* the usage records' sum alone, also when the timeline counts the
\* reservation.
C17_SnapshotIgnoresReservations ==
    [][ /\ reservations' # reservations => Snapshot' = Snapshot
        /\ \A i \in DOMAIN reservations' :
              reservations'[i].status = "approved" =>
                 Snapshot'[reservations'[i].gpu_type].Used
                    = CountOver(gpu_usage', {j \in DOMAIN gpu_usage' :
                          gpu_usage'[j].gpu_type = reservations'[i].gpu_type})
      ]_vars

\* an approved reservation of 2 A100 on 2024-01-30 is counted in the
\* timeline (used 4 with the usage record's 2) and not in the snapshot (2)
C17_Witness ==
    /\ \E i \in DOMAIN reservations :
          /\ reservations[i].status = "approved"
          /\ reservations[i].gpu_type = "A100"
          /\ reservations[i].start_date = strftime(0)
          /\ reservations[i].count = 2
    /\ Used(Timeline, strftime(0), "A100") = 4
    /\ Snapshot["A100"].Used = 2
    /\ Snapshot["A100"].Available = 8

\* the date texts covered by some usage record or approved reservation
CoveredDates ==
    { strftime(d) : d \in
        { c \in CalendarDays :
            \/ \E i \in DOMAIN gpu_usage : Covers(gpu_usage[i], c)
            \/ \E i \in DOMAIN reservations :
                  reservations[i].status = "approved" /\ Covers(reservations[i], c) } }

\* C18: the dates of the timeline are exactly the dates covered by some
\* usage record or approved reservation; a date covered by none is absent,
\* and with no usage record and no approved reservation the timeline is
\* empty (the read takes the branch for an empty table).
C18_TimelineDates ==
    LET piv == Timeline
    IN  /\ DOMAIN piv = CoveredDates
        /\ (gpu_usage = <<>> /\ ApprovedStored(reservations) = <<>>) =>
              piv = [d \in {} |-> 0]

\* no usage records; one reservation approved for 2024-01-31 alone and one
\* pending for 2024-01-30: the timeline has the single date 2024-01-31
C18_Witness ==
    /\ gpu_usage = <<>>
    /\ \E i, j \in DOMAIN reservations :
          /\ reservations[i].status = "approved"
          /\ reservations[i].start_date = strftime(1)
          /\ reservations[i].end_date = None
          /\ reservations[j].status = "pending"
          /\ reservations[j].start_date = strftime(0)
    /\ DOMAIN Timeline = {strftime(1)}

IsApproved(id) ==
    Stored(reservations, id) /\ RowOf(reservations, id).status = "approved"

\* an approve step is possible for reservation id: its button can be
\* clicked, or a run that read it has its write ahead
ApproveEnabled(id) ==
    \/ ENABLED (\E s \in Sessions : ApproveRead(s, id))
    \/ \E s \in Sessions : pc[s] = "approve" /\ r[s].id = id

\* C19: a pending reservation that is never deleted and on which approve
\* keeps being invoked, the sessions interleaving their reads and writes,
\* eventually reaches 'approved', and from the moment it is approved no
\* approve action is enabled for it.
C19_EventuallyApprovedForGood ==
    \A id \in 1 .. MaxResv :
        /\ Stored(reservations, id) ~> IsApproved(id)
        /\ [](IsApproved(id) => [](IsApproved(id) /\ ~ApproveEnabled(id)))

\* the first half of C19 alone: approval is reached
C19_EventuallyApproved ==
    \A id \in 1 .. MaxResv : Stored(reservations, id) ~> IsApproved(id)

\* C19 with "from then on" read as "from some moment on"
C19_EventuallySettled ==
    \A id \in 1 .. MaxResv :
        Stored(reservations, id) ~> [](IsApproved(id) /\ ~ApproveEnabled(id))

====
